---- MODULE Spec2Model ----
\* myskyapp: the orientation pipeline of App_new.js (sensor fusion gate, moving
\* average, hysteresis, location/declination start-up) and the catalog search of
\* StarData (src/unnamed/part_000).
\*
\* Angles are integers in units of 1/600 degree: every raw angle the model feeds
\* is a multiple of 0.1 degree (60 units), so the mean of 1..5 samples is an
\* integer and the arithmetic of the source is reproduced without rounding.
\* Magnitudes are integers in tenths.
EXTENDS Integers, Sequences, FiniteSets, TLC

VARIABLES
    last,              \* last.current: latest reading per channel, or NULL
    madgwick,          \* the AHRS filter: its Euler output and update count
    sensorHistory,     \* sensorHistory.current: the two moving-average buffers
    azAlt,             \* React state azAlt, the published orientation
    previousAzAlt,     \* previousAzAlt.current, the last published record
    declination,       \* React state declination
    closureDecl,       \* declination captured by the registered tryFuse closure
    nArrivals,         \* sensor callbacks run so far
    locPermStatus,     \* React state locPermStatus
    locPerm,           \* React state locPerm
    observer,          \* React state observer
    locCalls,          \* position of every requestLocationPermission call
    starData,          \* the star catalog asset
    ephemFails,        \* bodies for which Astronomy.Equator throws
    searchQuery,       \* React state searchQuery
    searchResults,     \* React state searchResults
    searchEffectPending, \* the search effect's dependencies changed
    returned,          \* what a direct searchCelestial call returned, if made
    arguments,         \* the arguments of a direct call of another function
    result,            \* what that call returned, if made
    showSearch,        \* React state showSearch
    selectedCelestial, \* React state selectedCelestial
    eq,                \* React state eq, the equatorial pointing direction
    eqDeps,            \* [azAlt, observer] as of the frame effect's last run
    subscriptions,     \* the listeners registered with the three sensor modules
    effectRuns,        \* runs of the subscription effect so far
    mounted            \* the App component is mounted

vars == <<last, madgwick, sensorHistory, azAlt, previousAzAlt, declination,
          closureDecl, nArrivals, locPermStatus, locPerm, observer, locCalls,
          starData, ephemFails, searchQuery, searchResults, searchEffectPending,
          returned, arguments, result, showSearch, selectedCelestial, eq, eqDeps,
          subscriptions, effectRuns, mounted>>

fusionVars == <<last, madgwick, sensorHistory, azAlt, previousAzAlt, closureDecl,
                nArrivals>>
locationVars == <<declination, locPermStatus, locPerm, observer, locCalls>>
searchVars == <<starData, ephemFails, searchQuery, searchResults,
                searchEffectPending, returned>>
callVars == <<arguments, result>>
uiVars == <<showSearch, selectedCelestial, eq, eqDeps>>
lifecycleVars == <<subscriptions, effectRuns, mounted>>

\* null for the string-valued fields
NULL == "null"
\* A nullable value of any other type is a sequence of length at most one
None == <<>>
Some(x) == <<x>>
IsSome(o) == o # <<>>
ValueOf(o) == o[1]

----------------------------------------------------------------------------
\* Bounds of the model

\* sensor callbacks in one run
MaxArrivals == 8
\* invocations of requestLocationPermission in one run (mount + retries)
MaxLocCalls == 2
\* ordinary entries of the star catalog (one more entry is a special one)
MaxStars == 21
\* values fed in a row to one moving-average buffer
MaxFeeds == 6
\* bits of the significand of a floating-point number (a JavaScript number has
\* 53; the rounding of its arithmetic is the same at every width)
SignificandBits == 6

----------------------------------------------------------------------------
\* Units and small arithmetic

\* t tenths of a degree, in units of 1/600 degree
Tenth(t) == t * 60
\* d whole degrees
Deg(d) == d * 600

\* Math.abs
Abs(x) == IF x < 0 THEN -x ELSE x
\* Math.min
Min(a, b) == IF a <= b THEN a ELSE b

\* JavaScript's % : the result takes the sign of the dividend
JsMod(a, n) == IF a >= 0 THEN a % n ELSE -((-a) % n)

RECURSIVE SumSeq(_)
\* history.reduce((acc, val) => acc + val, 0)
SumSeq(s) == IF s = <<>> THEN 0 ELSE Head(s) + SumSeq(Tail(s))

----------------------------------------------------------------------------
\* Attitude fusion (App_new.js)

Channels == {"accel", "gyro", "mag"}

\* sensorHistory.windowSize
windowSize == 5

\* const changeThreshold = 0.3
changeThreshold == Tenth(3)

\* The Euler angles the external AHRS filter can report after an update
\* (heading in [-180, 180] degrees, pitch in [-90, 90] degrees).
Attitudes ==
    { [heading |-> Tenth(-2),  pitch |-> 0],
      [heading |-> Tenth(2),   pitch |-> Tenth(2)],
      [heading |-> Tenth(2),   pitch |-> Tenth(6)] }

\* history.push without the history.shift of a full buffer
PushNoShift(history, newValue, size) == Append(history, newValue)

\* history.push(newValue); if (history.length > windowSize) history.shift()
PushWindow(history, newValue, size) ==
    LET pushed == Append(history, newValue)
    IN  IF Len(pushed) > size THEN Tail(pushed) ELSE pushed

\* sum / history.length of a non-empty buffer
Mean(history) == SumSeq(history) \div Len(history)

\* applyMovingAverage returns the mean of the buffer after the push
applyMovingAverage(newValue, history, size) ==
    Mean(PushWindow(history, newValue, size))

\* JavaScript numbers: binary floating point, every operation rounded to the
\* nearest representable value, ties to the even significand. A number is
\* m * 2^e with m < 2^SignificandBits, and m >= 2^(SignificandBits-1) unless
\* e = 0.
Zero == [m |-> 0, e |-> 0]
FloatValue(f) == f.m * (2 ^ f.e)
Exponents == 0..(SignificandBits + 4)

\* the number nearest to num / den
RoundToFloat(num, den) ==
    LET e == CHOOSE x \in Exponents :
                 /\ num < (2 ^ SignificandBits) * den * (2 ^ x)
                 /\ x = 0 \/ num >= (2 ^ (SignificandBits - 1)) * den * (2 ^ x)
        d == den * (2 ^ e)
        q == num \div d
        r == num % d
        m == IF 2 * r > d \/ (2 * r = d /\ q % 2 = 1) THEN q + 1 ELSE q
    IN  IF m = 2 ^ SignificandBits
        THEN [m |-> 2 ^ (SignificandBits - 1), e |-> e + 1]
        ELSE [m |-> m, e |-> e]

\* acc + val
FloatAdd(a, b) == RoundToFloat(FloatValue(a) + FloatValue(b), 1)
\* sum / history.length
FloatDiv(a, n) == RoundToFloat(FloatValue(a), n)

RECURSIVE FloatSum(_)
\* history.reduce((acc, val) => acc + val, 0), left to right
FloatSum(history) ==
    IF history = <<>> THEN Zero
    ELSE FloatAdd(FloatSum(SubSeq(history, 1, Len(history) - 1)),
                  history[Len(history)])

\* applyMovingAverage in floating-point arithmetic
applyMovingAverageFloat(newValue, history, size) ==
    LET pushed == PushWindow(history, newValue, size)
    IN  FloatDiv(FloatSum(pushed), Len(pushed))

\* shouldUpdateOrientation without the circular treatment of the azimuth
shouldUpdateLinear(newAz, newAlt, prev) ==
    Abs(newAz - prev.az) > changeThreshold \/ Abs(newAlt - prev.alt) > changeThreshold

\* shouldUpdateOrientation requiring both components to exceed the threshold
shouldUpdateBoth(newAz, newAlt, prev) ==
    LET azDiff == Abs(newAz - prev.az)
    IN  /\ Min(azDiff, Deg(360) - azDiff) > changeThreshold
        /\ Abs(newAlt - prev.alt) > changeThreshold

\* the azimuth difference without Math.abs
signedAzDiff(newAz, prevAz) ==
    LET azDiff == newAz - prevAz
    IN  Min(azDiff, Deg(360) - azDiff)

\* const azDiff = Math.abs(newAz - previousAzAlt.current.az);
\* const normalizedAzDiff = Math.min(azDiff, 360 - azDiff)
normalizedAzDiff(newAz, prevAz) ==
    LET azDiff == Abs(newAz - prevAz)
    IN  Min(azDiff, Deg(360) - azDiff)

\* shouldUpdateOrientation(newAz, newAlt), reading previousAzAlt.current
shouldUpdateOrientation(newAz, newAlt, prev) ==
    LET altDiff == Abs(newAlt - prev.alt)
    IN  normalizedAzDiff(newAz, prev.az) > changeThreshold \/ altDiff > changeThreshold

\* let azDeg = (heading_deg) % 360; azDeg = (azDeg + declination + 360) % 360
AzimuthOf(heading, decl) ==
    JsMod(JsMod(heading, Deg(360)) + decl + Deg(360), Deg(360))

\* the completeness test without the magnetometer
\* The subscriptions one run of the subscription effect holds: accelSub,
\* gyroSub and magSub
ListenersOf(run) == { [channel |-> c, run |-> run] : c \in Channels }

\* the three addListener calls of a run
addListeners(registry, run) == registry \cup ListenersOf(run)

\* a cleanup that leaves the magnetometer subscription in place
cleanupWithoutMag(registry, run) ==
    registry \ { [channel |-> c, run |-> run] : c \in {"accel", "gyro"} }

\* the function the effect returns: accelSub.remove(); gyroSub.remove();
\* magSub.remove()
cleanup(registry, run) == registry \ ListenersOf(run)

\* a sensor module calls back the listeners registered with it
Registered(c) == \E s \in subscriptions : s.channel = c

\* the completeness test without the magnetometer
AccelGyroPresent(l) == l["accel"] # NULL /\ l["gyro"] # NULL

\* if (!accel || !gyro || !mag) return;
AllPresent(l) == \A c \in Channels : l[c] # NULL

\* the fusion step publishing without writing previousAzAlt.current
FuseWithoutRecord(att) ==
    LET azDeg == AzimuthOf(att.heading, closureDecl)
        altDeg == att.pitch
        filteredAz == applyMovingAverage(azDeg, sensorHistory.azimuth, windowSize)
        filteredAlt == applyMovingAverage(altDeg, sensorHistory.altitude, windowSize)
    IN  /\ madgwick' = [heading |-> att.heading, pitch |-> att.pitch,
                        updates |-> madgwick.updates + 1]
        /\ sensorHistory' =
              [azimuth |-> PushWindow(sensorHistory.azimuth, azDeg, windowSize),
               altitude |-> PushWindow(sensorHistory.altitude, altDeg, windowSize)]
        /\ IF shouldUpdateOrientation(filteredAz, filteredAlt, previousAzAlt)
           THEN /\ azAlt' = [az |-> filteredAz, alt |-> filteredAlt]
                /\ UNCHANGED previousAzAlt
           ELSE UNCHANGED <<azAlt, previousAzAlt>>

\* tryFuse, once the readings are complete: the filter takes the attitude att
Fuse(att) ==
    LET azDeg == AzimuthOf(att.heading, closureDecl)
        altDeg == att.pitch
        filteredAz == applyMovingAverage(azDeg, sensorHistory.azimuth, windowSize)
        filteredAlt == applyMovingAverage(altDeg, sensorHistory.altitude, windowSize)
    IN  /\ madgwick' = [heading |-> att.heading, pitch |-> att.pitch,
                        updates |-> madgwick.updates + 1]
        /\ sensorHistory' =
              [azimuth |-> PushWindow(sensorHistory.azimuth, azDeg, windowSize),
               altitude |-> PushWindow(sensorHistory.altitude, altDeg, windowSize)]
        /\ IF shouldUpdateOrientation(filteredAz, filteredAlt, previousAzAlt)
           THEN /\ azAlt' = [az |-> filteredAz, alt |-> filteredAlt]
                /\ previousAzAlt' = [az |-> filteredAz, alt |-> filteredAlt]
           ELSE UNCHANGED <<azAlt, previousAzAlt>>

\* tryFuse as called by a listener after it stored its reading
tryFuse(l) ==
    IF AllPresent(l)
    THEN \E att \in Attitudes : Fuse(att)
    ELSE UNCHANGED <<madgwick, sensorHistory, azAlt, previousAzAlt>>

\* A listener: last.current.<channel> = d; tryFuse()
Arrival(c) ==
    /\ Registered(c)
    /\ nArrivals < MaxArrivals
    /\ nArrivals' = nArrivals + 1
    /\ last' = [last EXCEPT ![c] = "reading"]
    /\ tryFuse(last')
    /\ UNCHANGED <<closureDecl>>
    /\ UNCHANGED locationVars
    /\ UNCHANGED searchVars
    /\ UNCHANGED callVars
    /\ UNCHANGED lifecycleVars
    /\ UNCHANGED uiVars

AccelListener == Arrival("accel")
GyroListener == Arrival("gyro")
MagListener == Arrival("mag")

\* The subscription effect re-runs when its dependency [declination] changed:
\* the cleanup removes the three listeners and new ones are registered, whose
\* tryFuse closes over the current declination.
SubscriptionEffect ==
    /\ mounted
    /\ closureDecl # declination
    /\ closureDecl' = declination
    /\ subscriptions' = addListeners(cleanup(subscriptions, effectRuns), effectRuns + 1)
    /\ effectRuns' = effectRuns + 1
    /\ UNCHANGED mounted
    /\ UNCHANGED <<last, madgwick, sensorHistory, azAlt, previousAzAlt, nArrivals>>
    /\ UNCHANGED locationVars
    /\ UNCHANGED searchVars
    /\ UNCHANGED callVars
    /\ UNCHANGED uiVars

\* The component unmounts: React runs the cleanup of the effect's last run
Unmount ==
    /\ mounted
    /\ mounted' = FALSE
    /\ subscriptions' = cleanup(subscriptions, effectRuns)
    /\ UNCHANGED effectRuns
    /\ UNCHANGED fusionVars
    /\ UNCHANGED locationVars
    /\ UNCHANGED searchVars
    /\ UNCHANGED callVars
    /\ UNCHANGED uiVars

----------------------------------------------------------------------------
\* Location and declination start-up (App_new.js, requestLocationPermission)

PermissionStatuses == {"granted", "denied", "undetermined"}

\* pos.coords of the fixes Location.getCurrentPositionAsync can deliver
\* (degrees in tenths; altitude may be missing)
Positions == { [latitude |-> 375, longitude |-> 1270, altitude |-> None] }

\* what Location.getHeadingAsync can resolve to: nothing, or a heading pair with
\* each heading in [0, 360) degrees
HeadingDatas ==
    { None,
      Some([trueHeading |-> None,           magHeading |-> Some(Deg(12))]),
      Some([trueHeading |-> Some(0),        magHeading |-> Some(Tenth(3599))]),
      Some([trueHeading |-> Some(Deg(20)),  magHeading |-> Some(Deg(12))]) }

\* headingData && typeof trueHeading === "number" && typeof magHeading === "number"
HeadingUsable(headingData) ==
    /\ IsSome(headingData)
    /\ IsSome(ValueOf(headingData).trueHeading)
    /\ IsSome(ValueOf(headingData).magHeading)

\* new Astro.Observer(latitude, longitude, altitude || 0)
ObserverOf(coords) ==
    [latitude |-> coords.latitude, longitude |-> coords.longitude,
     height |-> IF IsSome(coords.altitude) THEN ValueOf(coords.altitude) ELSE 0]

\* requestLocationPermission is invoked (the mount effect did so once already;
\* the "denied" screen's button does so again)
RetryLocation ==
    /\ mounted
    /\ locPermStatus = "denied"
    /\ Len(locCalls) < MaxLocCalls
    /\ locCalls' = Append(locCalls, "awaitPermission")
    /\ UNCHANGED <<declination, locPermStatus, locPerm, observer>>
    /\ UNCHANGED fusionVars
    /\ UNCHANGED searchVars
    /\ UNCHANGED callVars
    /\ UNCHANGED lifecycleVars
    /\ UNCHANGED uiVars

\* await requestForegroundPermissionsAsync() resolves
PermissionResult ==
    \E i \in 1..Len(locCalls), status \in PermissionStatuses :
        /\ locCalls[i] = "awaitPermission"
        /\ locPermStatus' = status
        /\ IF status = "granted"
           THEN /\ locPerm' = TRUE
                /\ locCalls' = [locCalls EXCEPT ![i] = "awaitPosition"]
           ELSE /\ locPerm' = locPerm
                /\ locCalls' = [locCalls EXCEPT ![i] = "done"]
        /\ UNCHANGED <<declination, observer>>
        /\ UNCHANGED fusionVars
        /\ UNCHANGED searchVars
        /\ UNCHANGED callVars
        /\ UNCHANGED lifecycleVars
        /\ UNCHANGED uiVars

\* await getCurrentPositionAsync({}) resolves: setObserver
PositionFix ==
    \E i \in 1..Len(locCalls), pos \in Positions :
        /\ locCalls[i] = "awaitPosition"
        /\ observer' = Some(ObserverOf(pos))
        /\ locCalls' = [locCalls EXCEPT ![i] = "awaitHeading"]
        /\ UNCHANGED <<declination, locPermStatus, locPerm>>
        /\ UNCHANGED fusionVars
        /\ UNCHANGED searchVars
        /\ UNCHANGED callVars
        /\ UNCHANGED lifecycleVars
        /\ UNCHANGED uiVars

\* getCurrentPositionAsync rejects: the catch block logs and the call ends
PositionFails ==
    \E i \in 1..Len(locCalls) :
        /\ locCalls[i] = "awaitPosition"
        /\ locCalls' = [locCalls EXCEPT ![i] = "done"]
        /\ UNCHANGED <<declination, locPermStatus, locPerm, observer>>
        /\ UNCHANGED fusionVars
        /\ UNCHANGED searchVars
        /\ UNCHANGED callVars
        /\ UNCHANGED lifecycleVars
        /\ UNCHANGED uiVars

\* await getHeadingAsync() resolves: setDeclination when both are numbers
HeadingResult ==
    \E i \in 1..Len(locCalls), headingData \in HeadingDatas :
        /\ locCalls[i] = "awaitHeading"
        /\ declination' = IF HeadingUsable(headingData)
                          THEN ValueOf(ValueOf(headingData).trueHeading)
                               - ValueOf(ValueOf(headingData).magHeading)
                          ELSE declination
        /\ locCalls' = [locCalls EXCEPT ![i] = "done"]
        /\ UNCHANGED <<locPermStatus, locPerm, observer>>
        /\ UNCHANGED fusionVars
        /\ UNCHANGED searchVars
        /\ UNCHANGED callVars
        /\ UNCHANGED lifecycleVars
        /\ UNCHANGED uiVars

\* getHeadingAsync rejects: the catch block logs and the call ends
HeadingFails ==
    \E i \in 1..Len(locCalls) :
        /\ locCalls[i] = "awaitHeading"
        /\ locCalls' = [locCalls EXCEPT ![i] = "done"]
        /\ UNCHANGED <<declination, locPermStatus, locPerm, observer>>
        /\ UNCHANGED fusionVars
        /\ UNCHANGED searchVars
        /\ UNCHANGED callVars
        /\ UNCHANGED lifecycleVars
        /\ UNCHANGED uiVars

----------------------------------------------------------------------------
\* Strings are sequences of one-character strings; each Hangul syllable of the
\* Korean proper names is one character, written here in romanised form.

UpperCase == <<"A","B","C","D","E","F","G","H","I","J","K","L","M",
               "N","O","P","Q","R","S","T","U","V","W","X","Y","Z">>
LowerCase == <<"a","b","c","d","e","f","g","h","i","j","k","l","m",
               "n","o","p","q","r","s","t","u","v","w","x","y","z">>

UpperSet == {UpperCase[i] : i \in 1..26}
LowerOfUpper == [c \in UpperSet |-> LowerCase[CHOOSE i \in 1..26 : UpperCase[i] = c]]

\* the lower-case form of one character; only A-Z have one
LowerChar(c) == IF c \in UpperSet THEN LowerOfUpper[c] ELSE c

\* String.prototype.toLowerCase
toLowerCase(str) == [i \in 1..Len(str) |-> LowerChar(str[i])]

\* String.prototype.startsWith
StartsWith(str, part) ==
    Len(part) <= Len(str) /\ SubSeq(str, 1, Len(part)) = part

\* String.prototype.includes
includes(str, part) ==
    \E i \in 0..(Len(str) - Len(part)) : SubSeq(str, i + 1, i + Len(part)) = part

\* Array.prototype.slice(0, n)
Take(seq, n) == SubSeq(seq, 1, Min(n, Len(seq)))

----------------------------------------------------------------------------
\* StarData (src/unnamed/part_000)

\* export const solarSystemBodies
solarSystemBodies ==
    << [id |-> "sun",     proper |-> <<"tae","yang">>,           name |-> <<"S","u","n">>,                 mag |-> -267],
       [id |-> "moon",    proper |-> <<"dal">>,                  name |-> <<"M","o","o","n">>,             mag |-> -126],
       [id |-> "mercury", proper |-> <<"su","seong">>,           name |-> <<"M","e","r","c","u","r","y">>, mag |-> -5],
       [id |-> "venus",   proper |-> <<"geum","seong">>,         name |-> <<"V","e","n","u","s">>,         mag |-> -44],
       [id |-> "mars",    proper |-> <<"hwa","seong">>,          name |-> <<"M","a","r","s">>,             mag |-> 7],
       [id |-> "jupiter", proper |-> <<"mok","seong">>,          name |-> <<"J","u","p","i","t","e","r">>, mag |-> -22],
       [id |-> "saturn",  proper |-> <<"to","seong">>,           name |-> <<"S","a","t","u","r","n">>,     mag |-> 5],
       [id |-> "uranus",  proper |-> <<"cheon","wang","seong">>, name |-> <<"U","r","a","n","u","s">>,     mag |-> 56],
       [id |-> "neptune", proper |-> <<"hae","wang","seong">>,   name |-> <<"N","e","p","t","u","n","e">>, mag |-> 78],
       [id |-> "pluto",   proper |-> <<"myeong","wang","seong">>, name |-> <<"P","l","u","t","o">>,        mag |-> 143] >>

\* body.name.toLowerCase() and body.proper.toLowerCase() of the ten bodies
LowerBodyNames ==
    {toLowerCase(solarSystemBodies[i].name) : i \in 1..Len(solarSystemBodies)}
LowerBodyPropers ==
    {toLowerCase(solarSystemBodies[i].proper) : i \in 1..Len(solarSystemBodies)}

\* getBodyForName: the Astronomy.Body of a name, case-insensitively, or null.
\* A body is identified by its lower-case English name (the switch labels).
BodyLabels ==
    { <<"s","u","n">>, <<"m","o","o","n">>, <<"m","e","r","c","u","r","y">>,
      <<"v","e","n","u","s">>, <<"m","a","r","s">>, <<"j","u","p","i","t","e","r">>,
      <<"s","a","t","u","r","n">>, <<"u","r","a","n","u","s">>,
      <<"n","e","p","t","u","n","e">>, <<"p","l","u","t","o">> }

getBodyForName(name) ==
    IF toLowerCase(name) \in BodyLabels THEN Some(toLowerCase(name)) ELSE None

\* Astronomy.Equator(body, date, observer, true, true): the external ephemeris.
\* It answers with right ascension (tenths of an hour) and declination (degrees),
\* here fixed by the body; it throws for the bodies in ephemFails.
Equator(body) ==
    [ra |-> (Len(body) * 23) % 240, dec |-> ((Len(body) * 7) % 47) - 23]

\* the outcome of a call that ended with an exception instead of a value
Thrown == [thrown |-> "Error"]

\* calculateSolarSystemBodyPosition without its try/catch: an exception of
\* Astronomy.Equator escapes
calculateSolarSystemBodyPositionNoCatch(bodyName, obs) ==
    IF ~IsSome(obs) THEN None
    ELSE IF bodyName = <<>> THEN None
    ELSE LET body == getBodyForName(bodyName)
         IN  IF ~IsSome(body) THEN None
             ELSE IF ValueOf(body) \in ephemFails THEN Some(Thrown)
             ELSE Some(Equator(ValueOf(body)))

\* calculateSolarSystemBodyPosition(bodyName, observer): {ra, dec} or null;
\* a missing name (undefined, null or "") is the empty sequence
calculateSolarSystemBodyPosition(bodyName, obs) ==
    IF ~IsSome(obs) THEN None
    ELSE IF bodyName = <<>> THEN None
    ELSE LET body == getBodyForName(bodyName)
         IN  IF ~IsSome(body) THEN None
             ELSE IF ValueOf(body) \in ephemFails THEN None
             ELSE Some(Equator(ValueOf(body)))

\* The callers wrap the call in their own try/catch, whose catch block returns
\* null for the body: try { position = calculate...(); ... } catch { return null }
PositionOrNull(bodyName, obs) ==
    LET position == calculateSolarSystemBodyPosition(bodyName, obs)
    IN  IF position = Some(Thrown) THEN None ELSE position

\* { ...body, ra: position.ra, dec: position.dec, isSolarSystemBody: true }
BodyWithPosition(body, position) ==
    [id |-> body.id, proper |-> body.proper, name |-> body.name, mag |-> body.mag,
     ra |-> position.ra, dec |-> position.dec, isSolarSystemBody |-> TRUE]

MapBodies(positioned, obs) ==
    [i \in 1..Len(positioned) |->
        BodyWithPosition(positioned[i],
            ValueOf(PositionOrNull(positioned[i].name, obs)))]

\* getAllSolarSystemBodiesPositions giving up at the first body that fails
getAllAbortOnFailure(obs) ==
    IF ~IsSome(obs) THEN <<>>
    ELSE IF \E i \in 1..Len(solarSystemBodies) :
               ~IsSome(PositionOrNull(solarSystemBodies[i].name, obs))
         THEN <<>>
    ELSE MapBodies(solarSystemBodies, obs)

\* getAllSolarSystemBodiesPositions(observer): map every body to itself with
\* its position, or to null; filter the nulls out
getAllSolarSystemBodiesPositions(obs) ==
    IF ~IsSome(obs) THEN <<>>
    ELSE MapBodies(
            SelectSeq(solarSystemBodies,
                LAMBDA body : IsSome(PositionOrNull(body.name, obs))),
            obs)

\* the test of lines 109-110 without the observer check
SearchGuardNoObserver(query, obs) ==
    ~IsSome(query) \/ Len(ValueOf(query)) < 2

\* if (!query || query.length < 2) return []; if (!observer) return [];
SearchGuard(query, obs) ==
    ~IsSome(query) \/ Len(ValueOf(query)) < 2 \/ ~IsSome(obs)

\* a name field that may be null: item.proper?.toLowerCase() || ""
LowerOrEmpty(field) == IF IsSome(field) THEN toLowerCase(ValueOf(field)) ELSE <<>>

\* body.proper.toLowerCase().includes(lowerText) ||
\* body.name.toLowerCase().includes(lowerText)
BodyMatches(body, lowerText) ==
    \/ includes(toLowerCase(body.proper), lowerText)
    \/ includes(toLowerCase(body.name), lowerText)

\* 1. the solar-system pass: filter by name, map to a result with the live
\*    position, drop the bodies whose position is null
SolarSystemEntry(body, realTimePosition) ==
    [id |-> [key |-> body.id],
     proper |-> Some(body.proper),
     name |-> Some(body.name),
     mag |-> Some(body.mag),
     ra |-> realTimePosition.ra,
     dec |-> realTimePosition.dec,
     isSolarSystemBody |-> TRUE]

MapSolarSystem(positioned, obs) ==
    [i \in 1..Len(positioned) |->
        SolarSystemEntry(positioned[i],
            ValueOf(PositionOrNull(positioned[i].name, obs)))]

SolarSystemResults(lowerText, obs) ==
    MapSolarSystem(
        SelectSeq(SelectSeq(solarSystemBodies, LAMBDA body : BodyMatches(body, lowerText)),
               LAMBDA body : IsSome(PositionOrNull(body.name, obs))),
        obs)

\* solarSystemBodies.some(body =>
\*     body.name.toLowerCase() === item.name?.toLowerCase() ||
\*     body.proper?.toLowerCase() === item.proper?.toLowerCase())
IsSolarSystemBody(item) ==
    \/ IsSome(item.name) /\ toLowerCase(ValueOf(item.name)) \in LowerBodyNames
    \/ IsSome(item.proper) /\ toLowerCase(ValueOf(item.proper)) \in LowerBodyPropers

\* the filter callback of the star pass
StarMatches(item, lowerText) ==
    /\ ~IsSolarSystemBody(item)
    /\ \/ includes(LowerOrEmpty(item.proper), lowerText)
       \/ includes(LowerOrEmpty(item.name), lowerText)

\* id: star.id || star.proper || star.name
StarIdOf(star) ==
    IF star.id # 0 THEN [number |-> star.id]
    ELSE IF IsSome(star.proper) /\ ValueOf(star.proper) # <<>>
         THEN [text |-> star.proper]
    ELSE [text |-> star.name]

\* .slice(0, 20)
StarScanCap == 20
\* .slice(0, 15)
ResultCap == 15
\* (a.mag || 100), in tenths
MissingMag == 1000

\* 2. the star pass: filter, keep the first 20 matches, map to a result
StarEntry(star) ==
    [id |-> StarIdOf(star),
     proper |-> star.proper,
     name |-> star.name,
     mag |-> star.mag,
     ra |-> star.ra,
     dec |-> star.dec,
     isSolarSystemBody |-> FALSE]

MapStars(kept) == [i \in 1..Len(kept) |-> StarEntry(kept[i])]

\* A null entry of the catalog array. The filter callback reads item.name of
\* every entry, which throws a TypeError on null: the star pass then ends in
\* its catch block before results.push(...starResults).
NullRow == [isNull |-> TRUE]
IsNullRow(item) == DOMAIN item = {"isNull"}
StarPassThrows(catalog) == \E i \in 1..Len(catalog) : IsNullRow(catalog[i])

StarResults(lowerText, catalog) ==
    IF StarPassThrows(catalog) THEN <<>>
    ELSE MapStars(Take(SelectSeq(catalog, LAMBDA item : StarMatches(item, lowerText)),
                       StarScanCap))

\* a.mag || 100: a missing magnitude and a magnitude of 0 are both falsy
SortMag(entry) ==
    IF IsSome(entry.mag) /\ ValueOf(entry.mag) # 0 THEN ValueOf(entry.mag)
    ELSE MissingMag

RECURSIVE InsertByMagBefore(_, _)
\* an insertion that puts entry before the elements it ties with
InsertByMagBefore(sorted, entry) ==
    IF sorted = <<>> THEN <<entry>>
    ELSE IF SortMag(Head(sorted)) < SortMag(entry)
         THEN <<Head(sorted)>> \o InsertByMagBefore(Tail(sorted), entry)
         ELSE <<entry>> \o sorted

RECURSIVE InsertByMag(_, _)
\* entry put after every element that does not sort after it
InsertByMag(sorted, entry) ==
    IF sorted = <<>> THEN <<entry>>
    ELSE IF SortMag(Head(sorted)) <= SortMag(entry)
         THEN <<Head(sorted)>> \o InsertByMag(Tail(sorted), entry)
         ELSE <<entry>> \o sorted

RECURSIVE SortByMag(_)
\* results.sort((a, b) => (a.mag || 100) - (b.mag || 100)): a stable sort
SortByMag(results) ==
    IF results = <<>> THEN <<>>
    ELSE InsertByMag(SortByMag(SubSeq(results, 1, Len(results) - 1)),
                     results[Len(results)])

\* results after both passes pushed their entries
Candidates(query, obs, catalog) ==
    LET lowerText == toLowerCase(ValueOf(query))
    IN  SolarSystemResults(lowerText, obs) \o StarResults(lowerText, catalog)

\* searchCelestial cutting the list to 15 before it sorts
searchCelestialCutFirst(query, obs, catalog) ==
    IF SearchGuard(query, obs) THEN <<>>
    ELSE SortByMag(Take(Candidates(query, obs, catalog), ResultCap))

\* searchCelestial without the final sort
searchCelestialUnsorted(query, obs, catalog) ==
    IF SearchGuard(query, obs) THEN <<>>
    ELSE Take(Candidates(query, obs, catalog), ResultCap)

\* searchCelestial with both passes in one try block that fills results at its
\* end: an exception of the star pass leaves results empty
searchCelestialOneTry(query, obs, catalog) ==
    IF SearchGuard(query, obs) THEN <<>>
    ELSE IF StarPassThrows(catalog) THEN <<>>
    ELSE Take(SortByMag(Candidates(query, obs, catalog)), ResultCap)

\* export const searchCelestial = (query, observer) => ...
searchCelestial(query, obs, catalog) ==
    IF SearchGuard(query, obs) THEN <<>>
    ELSE Take(SortByMag(Candidates(query, obs, catalog)), ResultCap)

\* A direct call searchCelestial(searchQuery, observer)
CallSearch ==
    /\ returned = None
    /\ returned' = Some(searchCelestial(searchQuery, observer, starData))
    /\ UNCHANGED <<starData, ephemFails, searchQuery, searchResults,
                   searchEffectPending>>
    /\ UNCHANGED fusionVars
    /\ UNCHANGED locationVars
    /\ UNCHANGED callVars
    /\ UNCHANGED lifecycleVars
    /\ UNCHANGED uiVars

\* The search effect of App_new.js, run after [searchQuery, observer] changed
SearchEffect ==
    /\ searchEffectPending
    /\ searchEffectPending' = FALSE
    /\ searchResults' =
          IF \/ ~IsSome(searchQuery)
             \/ Len(ValueOf(searchQuery)) < 2
             \/ ~IsSome(observer)
          THEN <<>>
          ELSE searchCelestial(searchQuery, observer, starData)
    /\ UNCHANGED <<starData, ephemFails, searchQuery, returned>>
    /\ UNCHANGED fusionVars
    /\ UNCHANGED locationVars
    /\ UNCHANGED callVars
    /\ UNCHANGED lifecycleVars
    /\ UNCHANGED uiVars

----------------------------------------------------------------------------
\* Frame transform and target bearing (App_new.js)
\*
\* Right ascensions are in tenths of an hour and declinations in whole degrees,
\* as in the catalog rows; the offsets calculateDirection computes are in tenths
\* of a degree (0.1 h x 15 = 1.5 degrees = 15 tenths), and the distance is kept
\* as its square, in (tenths of a degree) squared. The direction angle (atan2)
\* is left out.

\* the directions Astro.EquatorFromVector can answer with: ra in [0, 24) hours,
\* dec in [-90, 90] degrees
RaGrid == { r \in 0..239 : r % 5 = 0 \/ r \in {1, 119, 121, 239} }
DecGrid == { -90, -1, 0, 37, 90 }
EquatorialGrid == { [ra |-> r, dec |-> d] : r \in RaGrid, d \in DecGrid }

\* The frame effect, run after [azAlt, observer] changed:
\* if (!observer) return; ... setEq({ ra, dec })
FrameTransformEffect ==
    /\ eqDeps # <<azAlt, observer>>
    /\ eqDeps' = <<azAlt, observer>>
    /\ IF IsSome(observer)
       THEN eq' \in EquatorialGrid
       ELSE eq' = eq
    /\ UNCHANGED <<showSearch, selectedCelestial>>
    /\ UNCHANGED fusionVars
    /\ UNCHANGED locationVars
    /\ UNCHANGED searchVars
    /\ UNCHANGED callVars
    /\ UNCHANGED lifecycleVars

\* calculateDirection without the second correction
calculateDirectionOneSided(selected, current) ==
    IF ~IsSome(selected) THEN None
    ELSE LET targetRaDeg == ValueOf(selected).ra * 15
             currentRaDeg == current.ra * 15
             raDiff0 == targetRaDeg - currentRaDeg
             raDiff == IF raDiff0 > 1800 THEN raDiff0 - 3600 ELSE raDiff0
             decDiff == (ValueOf(selected).dec - current.dec) * 10
         IN  Some([raDiff |-> raDiff, decDiff |-> decDiff,
                   distanceSq |-> (raDiff * raDiff) + (decDiff * decDiff)])

\* calculateDirection(), reading selectedCelestial and eq
calculateDirection(selected, current) ==
    IF ~IsSome(selected) THEN None
    ELSE LET targetRaDeg == ValueOf(selected).ra * 15
             currentRaDeg == current.ra * 15
             raDiff0 == targetRaDeg - currentRaDeg
             raDiff1 == IF raDiff0 > 1800 THEN raDiff0 - 3600 ELSE raDiff0
             raDiff == IF raDiff1 < -1800 THEN raDiff1 + 3600 ELSE raDiff1
             decDiff == (ValueOf(selected).dec - current.dec) * 10
         IN  Some([raDiff |-> raDiff, decDiff |-> decDiff,
                   distanceSq |-> (raDiff * raDiff) + (decDiff * decDiff)])

\* const directionInfo = selectedCelestial ? calculateDirection() : null
directionInfo ==
    IF IsSome(selectedCelestial) THEN calculateDirection(selectedCelestial, eq) ELSE None

\* showCompass with the comparison the wrong way round
showCompassWithin ==
    /\ IsSome(selectedCelestial)
    /\ IsSome(directionInfo)
    /\ ValueOf(directionInfo).distanceSq <= 5 * 5

\* selectedCelestial && directionInfo && directionInfo.distance > 0.5
showCompass ==
    /\ IsSome(selectedCelestial)
    /\ IsSome(directionInfo)
    /\ ValueOf(directionInfo).distanceSq > 5 * 5

\* selectedCelestial && directionInfo && directionInfo.distance <= 3
targetInCircle ==
    /\ IsSome(selectedCelestial)
    /\ IsSome(directionInfo)
    /\ ValueOf(directionInfo).distanceSq <= 30 * 30

----------------------------------------------------------------------------
\* Screens and the search modal (App_new.js); the camera permission is taken
\* as granted

\* what App renders: the location-permission screen with its request button,
\* the loading screen, or the camera view with the overlay
Screen ==
    IF locPermStatus = "denied" THEN "permission"
    ELSE IF ~locPerm \/ ~IsSome(observer) THEN "loading"
    ELSE "main"

\* toggleSearch without the reset of the query and of the result list
ToggleUpdatesKeeping ==
    /\ showSearch' = ~showSearch
    /\ UNCHANGED <<searchQuery, searchResults, searchEffectPending>>

\* the state updates of toggleSearch: setShowSearch(!showSearch) and, when the
\* modal was open, setSearchQuery("") and setSearchResults([]); the search
\* effect is due when searchQuery changed
ToggleUpdates ==
    /\ showSearch' = ~showSearch
    /\ searchQuery' = IF showSearch THEN Some(<<>>) ELSE searchQuery
    /\ searchResults' = IF showSearch THEN <<>> ELSE searchResults
    /\ searchEffectPending' = (searchEffectPending \/ searchQuery' # searchQuery)

\* toggleSearch also dropping the selected target when it closes the modal
toggleSearchClearing ==
    /\ Screen = "main"
    /\ ToggleUpdates
    /\ selectedCelestial' = IF showSearch THEN None ELSE selectedCelestial
    /\ UNCHANGED <<eq, eqDeps>>
    /\ UNCHANGED <<starData, ephemFails, returned>>
    /\ UNCHANGED fusionVars
    /\ UNCHANGED locationVars
    /\ UNCHANGED callVars
    /\ UNCHANGED lifecycleVars

\* toggleSearch, from the search button, the backdrop or the close button
toggleSearch ==
    /\ Screen = "main"
    /\ ToggleUpdates
    /\ UNCHANGED <<selectedCelestial, eq, eqDeps>>
    /\ UNCHANGED <<starData, ephemFails, returned>>
    /\ UNCHANGED fusionVars
    /\ UNCHANGED locationVars
    /\ UNCHANGED callVars
    /\ UNCHANGED lifecycleVars

\* the texts the user types into the search field
TypedTexts == { <<>>, <<"a">>, <<"a","r">>, <<"u","n">> }

\* onChangeText={setSearchQuery}, the field being part of the open modal
setSearchQuery ==
    \E text \in TypedTexts :
        /\ Screen = "main"
        /\ showSearch
        /\ searchQuery' = Some(text)
        /\ searchEffectPending' = (searchEffectPending \/ searchQuery' # searchQuery)
        /\ UNCHANGED <<starData, ephemFails, searchResults, returned>>
        /\ UNCHANGED uiVars
        /\ UNCHANGED fusionVars
        /\ UNCHANGED locationVars
        /\ UNCHANGED callVars
        /\ UNCHANGED lifecycleVars

\* selectCelestial(item), from a row of the result list of the open modal:
\* setSelectedCelestial(celestial); toggleSearch()
selectCelestial ==
    \E i \in 1..Len(searchResults) :
        /\ Screen = "main"
        /\ showSearch
        /\ selectedCelestial' = Some(searchResults[i])
        /\ ToggleUpdates
        /\ UNCHANGED <<eq, eqDeps>>
        /\ UNCHANGED <<starData, ephemFails, returned>>
        /\ UNCHANGED fusionVars
        /\ UNCHANGED locationVars
        /\ UNCHANGED callVars
        /\ UNCHANGED lifecycleVars

----------------------------------------------------------------------------
\* The application after mount: sensors subscribed, location request started

Init ==
    /\ last = [c \in Channels |-> NULL]
    /\ madgwick = [heading |-> 0, pitch |-> 0, updates |-> 0]
    /\ sensorHistory = [azimuth |-> <<>>, altitude |-> <<>>]
    /\ azAlt = [az |-> 0, alt |-> 0]
    /\ previousAzAlt = [az |-> 0, alt |-> 0]
    /\ declination = 0
    /\ closureDecl = 0
    /\ nArrivals = 0
    /\ locPermStatus = NULL
    /\ locPerm = FALSE
    /\ observer = None
    /\ locCalls = <<"awaitPermission">>
    /\ starData = <<>>
    /\ ephemFails = {}
    /\ searchQuery = Some(<<>>)
    /\ searchResults = <<>>
    /\ searchEffectPending = FALSE
    /\ returned = None
    /\ arguments = None
    /\ result = None
    /\ showSearch = FALSE
    /\ selectedCelestial = None
    /\ eq = [ra |-> 0, dec |-> 0]
    /\ eqDeps = <<azAlt, observer>>
    /\ subscriptions = ListenersOf(1)
    /\ effectRuns = 1
    /\ mounted = TRUE

Next ==
    \/ AccelListener
    \/ GyroListener
    \/ MagListener
    \/ SubscriptionEffect
    \/ RetryLocation
    \/ PermissionResult
    \/ PositionFix
    \/ PositionFails
    \/ HeadingResult
    \/ HeadingFails

Spec == Init /\ [][Next]_vars

----------------------------------------------------------------------------
\* The application from mount to unmount. The sensor modules go on producing
\* readings after the unmount, and a requestLocationPermission call in flight
\* runs to its end.

NextLifecycle ==
    \/ AccelListener
    \/ GyroListener
    \/ MagListener
    \/ SubscriptionEffect
    \/ Unmount
    \/ RetryLocation
    \/ PermissionResult
    \/ PositionFix
    \/ PositionFails
    \/ HeadingResult
    \/ HeadingFails

LifecycleSpec == Init /\ [][NextLifecycle]_vars

----------------------------------------------------------------------------
\* Permission requests in flight together. The request button of the "denied"
\* screen stays on screen, and enabled, while a request it started is pending.

\* The mount call has ended with "denied" and the button was pressed
\* MaxLocCalls times since; accelerometer and gyroscope are delivering
InitRetry ==
    /\ last = [c \in Channels |-> IF c = "mag" THEN NULL ELSE "reading"]
    /\ madgwick = [heading |-> 0, pitch |-> 0, updates |-> 0]
    /\ sensorHistory = [azimuth |-> <<>>, altitude |-> <<>>]
    /\ azAlt = [az |-> 0, alt |-> 0]
    /\ previousAzAlt = [az |-> 0, alt |-> 0]
    /\ declination = 0
    /\ closureDecl = 0
    /\ nArrivals = MaxArrivals - 3
    /\ observer = None
    /\ locPermStatus = "denied"
    /\ locPerm = FALSE
    /\ locCalls = <<"done">> \o [i \in 1..MaxLocCalls |-> "awaitPermission"]
    /\ starData = <<>>
    /\ ephemFails = {}
    /\ searchQuery = Some(<<>>)
    /\ searchResults = <<>>
    /\ searchEffectPending = FALSE
    /\ returned = None
    /\ arguments = None
    /\ result = None
    /\ showSearch = FALSE
    /\ selectedCelestial = None
    /\ eq = [ra |-> 0, dec |-> 0]
    /\ eqDeps = <<azAlt, observer>>
    /\ subscriptions = ListenersOf(1)
    /\ effectRuns = 1
    /\ mounted = TRUE

NextRetry ==
    \/ AccelListener
    \/ GyroListener
    \/ MagListener
    \/ SubscriptionEffect
    \/ PermissionResult
    \/ PositionFix
    \/ PositionFails
    \/ HeadingResult
    \/ HeadingFails

RetrySpec == InitRetry /\ [][NextRetry]_vars

----------------------------------------------------------------------------
\* The search function on bounded inputs

\* An ordinary catalog row as Convert.js writes it: {id, proper, name, ra, dec,
\* mag}, proper and name null when the CSV field is empty. Every such row has
\* "ar" in one of its names; magnitudes repeat and include 0.
CatalogRow(i) ==
    [id |-> i,
     proper |-> CASE i % 3 = 1 -> Some(<<"A","r","n","e","b">>)
                  [] i % 3 = 2 -> None
                  [] OTHER     -> Some(<<"M","i","z","a","r">>),
     name |-> CASE i % 3 = 1 -> Some(<<"A","l","p">>)
                [] i % 3 = 2 -> Some(<<"C","a","r">>)
                [] OTHER     -> None,
     ra |-> (i * 11) % 240,
     dec |-> ((i * 13) % 90) - 45,
     mag |-> Some((((i * 7) % 13) * 5) - 20)]

\* Rows with a particular feature
SpecialRows ==
    { \* its proper name is a body's canonical name
      [id |-> 1001, proper |-> Some(<<"S","u","n">>), name |-> None,
       ra |-> 10, dec |-> 5, mag |-> Some(48)],
      \* its canonical name is a body's canonical name, in another case
      [id |-> 1002, proper |-> None, name |-> Some(<<"M","A","R","S">>),
       ra |-> 20, dec |-> -5, mag |-> Some(7)],
      \* brighter than every ordinary row
      [id |-> 1003, proper |-> Some(<<"A","r","c","t","u","r","u","s">>),
       name |-> Some(<<"B","o","o">>), ra |-> 143, dec |-> 19, mag |-> Some(-50)],
      \* no magnitude
      [id |-> 1004, proper |-> Some(<<"M","a","r","k","a","b">>),
       name |-> Some(<<"A","l","p">>), ra |-> 231, dec |-> 15, mag |-> None],
      \* id 0, magnitude 0, no "ar" in its names
      [id |-> 0, proper |-> Some(<<"V","e","g","a">>),
       name |-> Some(<<"L","y","r">>), ra |-> 186, dec |-> 39, mag |-> Some(0)],
      \* the magnitude of Mars
      [id |-> 1005, proper |-> Some(<<"M","a","r","f","i","k">>),
       name |-> Some(<<"O","p","h">>), ra |-> 165, dec |-> 10, mag |-> Some(7)] }

\* n ordinary rows with the special row at position p
CatalogOf(n, p, special) ==
    [i \in 1..(n + 1) |->
        IF i < p THEN CatalogRow(i)
        ELSE IF i = p THEN special
        ELSE CatalogRow(i - 1)]

SpecialPositions(n) == {1, (n \div 2) + 1, n + 1}

CatalogInputs ==
    UNION { { CatalogOf(n, p, special) :
                p \in SpecialPositions(n), special \in SpecialRows } :
            n \in 0..MaxStars }

\* the queries: missing, shorter than two characters, and two or more
Queries ==
    { None,
      Some(<<>>),
      Some(<<"r">>),
      Some(<<"a","r">>),
      Some(<<"A","r">>),
      Some(<<"u","n">>),
      Some(<<"wang","seong">>) }

\* the observer of a location fix
SomeObserver == Some([latitude |-> 375, longitude |-> 1270, height |-> 0])

\* the query typed before the current one
PreviousQuery == Some(<<"p","l">>)

InitSearch ==
    /\ last = [c \in Channels |-> NULL]
    /\ madgwick = [heading |-> 0, pitch |-> 0, updates |-> 0]
    /\ sensorHistory = [azimuth |-> <<>>, altitude |-> <<>>]
    /\ azAlt = [az |-> 0, alt |-> 0]
    /\ previousAzAlt = [az |-> 0, alt |-> 0]
    /\ declination = 0
    /\ closureDecl = 0
    /\ nArrivals = 0
    /\ observer \in {None, SomeObserver}
    /\ locPermStatus = IF IsSome(observer) THEN "granted" ELSE NULL
    /\ locPerm = IsSome(observer)
    /\ locCalls = IF IsSome(observer) THEN <<"done">> ELSE <<"awaitPermission">>
    /\ starData \in CatalogInputs
    /\ ephemFails \in {{}, {<<"m","a","r","s">>}}
    /\ searchQuery \in Queries
    /\ searchResults = searchCelestial(PreviousQuery, observer, starData)
    /\ searchEffectPending = TRUE
    /\ returned = None
    /\ arguments = None
    /\ result = None
    /\ showSearch = FALSE
    /\ selectedCelestial = None
    /\ eq = [ra |-> 0, dec |-> 0]
    /\ eqDeps = <<azAlt, observer>>
    /\ subscriptions = ListenersOf(1)
    /\ effectRuns = 1
    /\ mounted = TRUE

NextSearch ==
    \/ CallSearch
    \/ SearchEffect

SearchSpec == InitSearch /\ [][NextSearch]_vars

----------------------------------------------------------------------------
\* The exported functions of StarData under failures: a body whose ephemeris
\* computation throws, a catalog with a null entry

\* names a caller may pass to calculateSolarSystemBodyPosition
BodyNameInputs ==
    { <<>>,
      <<"M","a","r","s">>, <<"M","A","R","S">>, <<"m","a","r","s">>,
      <<"S","u","n">>, <<"P","l","u","t","o">>, <<"p","l","u","t","O">>,
      <<"J","u","p","i","t","e","r">>,
      <<"E","a","r","t","h">>, <<"M","a","r">>, <<"hwa","seong">> }

\* the bodies whose computation throws: none, the first, a middle one, the
\* last of the table, and their combinations
EphemFailInputs == SUBSET { <<"s","u","n">>, <<"m","a","r","s">>, <<"p","l","u","t","o">> }

\* catalogs with a null entry at the start, in the middle or at the end, and
\* well-formed ones
StarDataCatalogs ==
    UNION { { CatalogOf(n, p, NullRow) : p \in SpecialPositions(n) } : n \in 0..4 }
    \cup { CatalogOf(4, 1, special) : special \in SpecialRows }

\* A direct call calculateSolarSystemBodyPosition(bodyName, observer)
CallPosition ==
    /\ result.position = None
    /\ result' = [result EXCEPT !.position =
                     Some(calculateSolarSystemBodyPosition(arguments.bodyName, observer))]
    /\ UNCHANGED arguments
    /\ UNCHANGED lifecycleVars
    /\ UNCHANGED uiVars
    /\ UNCHANGED fusionVars
    /\ UNCHANGED locationVars
    /\ UNCHANGED searchVars

\* A direct call getAllSolarSystemBodiesPositions(observer)
CallAllPositions ==
    /\ result.all = None
    /\ result' = [result EXCEPT !.all =
                     Some(getAllSolarSystemBodiesPositions(observer))]
    /\ UNCHANGED arguments
    /\ UNCHANGED lifecycleVars
    /\ UNCHANGED uiVars
    /\ UNCHANGED fusionVars
    /\ UNCHANGED locationVars
    /\ UNCHANGED searchVars

InitStarData ==
    /\ last = [c \in Channels |-> NULL]
    /\ madgwick = [heading |-> 0, pitch |-> 0, updates |-> 0]
    /\ sensorHistory = [azimuth |-> <<>>, altitude |-> <<>>]
    /\ azAlt = [az |-> 0, alt |-> 0]
    /\ previousAzAlt = [az |-> 0, alt |-> 0]
    /\ declination = 0
    /\ closureDecl = 0
    /\ nArrivals = 0
    /\ observer \in {None, SomeObserver}
    /\ locPermStatus = IF IsSome(observer) THEN "granted" ELSE NULL
    /\ locPerm = IsSome(observer)
    /\ locCalls = IF IsSome(observer) THEN <<"done">> ELSE <<"awaitPermission">>
    /\ starData \in StarDataCatalogs
    /\ ephemFails \in EphemFailInputs
    /\ searchQuery \in { Some(<<"a","r">>), Some(<<"u","n">>) }
    /\ searchResults = <<>>
    /\ searchEffectPending = TRUE
    /\ returned = None
    /\ arguments \in { [bodyName |-> n] : n \in BodyNameInputs }
    /\ result = [position |-> None, all |-> None]
    /\ showSearch = FALSE
    /\ selectedCelestial = None
    /\ eq = [ra |-> 0, dec |-> 0]
    /\ eqDeps = <<azAlt, observer>>
    /\ subscriptions = ListenersOf(1)
    /\ effectRuns = 1
    /\ mounted = TRUE

NextStarData ==
    \/ CallPosition
    \/ CallAllPositions
    \/ CallSearch

StarDataSpec == InitStarData /\ [][NextStarData]_vars

----------------------------------------------------------------------------
\* The bearing towards a selected target, for targets and pointing directions
\* over the whole sky

\* a search result at the position c
TargetAt(c) ==
    [id |-> [number |-> 1], proper |-> Some(<<"T","a","r","g","e","t">>),
     name |-> None, mag |-> Some(10), ra |-> c.ra, dec |-> c.dec,
     isSolarSystemBody |-> FALSE]

\* The application with a location fix and a target selected; the frame effect
\* has not run since the observer was set
InitBearing ==
    /\ last = [c \in Channels |-> NULL]
    /\ madgwick = [heading |-> 0, pitch |-> 0, updates |-> 0]
    /\ sensorHistory = [azimuth |-> <<>>, altitude |-> <<>>]
    /\ azAlt = [az |-> 0, alt |-> 0]
    /\ previousAzAlt = [az |-> 0, alt |-> 0]
    /\ declination = 0
    /\ closureDecl = 0
    /\ nArrivals = 0
    /\ observer = SomeObserver
    /\ locPermStatus = "granted"
    /\ locPerm = TRUE
    /\ locCalls = <<"done">>
    /\ starData = <<>>
    /\ ephemFails = {}
    /\ searchQuery = Some(<<>>)
    /\ searchResults = <<>>
    /\ searchEffectPending = FALSE
    /\ returned = None
    /\ arguments = None
    /\ result = None
    /\ showSearch = FALSE
    /\ selectedCelestial \in { Some(TargetAt(c)) : c \in EquatorialGrid }
    /\ eq = [ra |-> 0, dec |-> 0]
    /\ eqDeps = <<azAlt, None>>
    /\ subscriptions = ListenersOf(1)
    /\ effectRuns = 1
    /\ mounted = TRUE

NextBearing ==
    \/ FrameTransformEffect

BearingSpec == InitBearing /\ [][NextBearing]_vars

----------------------------------------------------------------------------
\* The moving average on a constant input stream, in floating-point arithmetic

\* the values of one binade
Binade == { [m |-> m, e |-> 2] :
              m \in (2 ^ (SignificandBits - 1))..((2 ^ SignificandBits) - 1) }

\* what the buffer may hold before the stream starts: up to windowSize earlier
\* samples, small and large
EarlierSamples ==
    { [m |-> 2 ^ (SignificandBits - 1), e |-> 0],
      [m |-> (2 ^ SignificandBits) - 1, e |-> 3] }
EarlierBuffers ==
    UNION { [1..n -> EarlierSamples] : n \in 0..windowSize }

\* filteredAz = applyMovingAverage(azDeg, sensorHistory.current.azimuth,
\* windowSize) with the value of the stream
FeedConstant ==
    /\ result.fed < MaxFeeds
    /\ result' = [fed |-> result.fed + 1,
                  filtered |-> Some(applyMovingAverageFloat(arguments,
                                        sensorHistory.azimuth, windowSize))]
    /\ sensorHistory' =
          [sensorHistory EXCEPT
              !.azimuth = PushWindow(sensorHistory.azimuth, arguments, windowSize)]
    /\ UNCHANGED <<last, madgwick, azAlt, previousAzAlt, closureDecl, nArrivals>>
    /\ UNCHANGED arguments
    /\ UNCHANGED lifecycleVars
    /\ UNCHANGED uiVars
    /\ UNCHANGED locationVars
    /\ UNCHANGED searchVars

InitAverage ==
    /\ last = [c \in Channels |-> "reading"]
    /\ madgwick = [heading |-> 0, pitch |-> 0, updates |-> 0]
    /\ sensorHistory \in { [azimuth |-> b, altitude |-> <<>>] : b \in EarlierBuffers }
    /\ azAlt = [az |-> 0, alt |-> 0]
    /\ previousAzAlt = [az |-> 0, alt |-> 0]
    /\ declination = 0
    /\ closureDecl = 0
    /\ nArrivals = 0
    /\ locPermStatus = NULL
    /\ locPerm = FALSE
    /\ observer = None
    /\ locCalls = <<"awaitPermission">>
    /\ starData = <<>>
    /\ ephemFails = {}
    /\ searchQuery = Some(<<>>)
    /\ searchResults = <<>>
    /\ searchEffectPending = FALSE
    /\ returned = None
    /\ arguments \in Binade
    /\ result = [fed |-> 0, filtered |-> None]
    /\ showSearch = FALSE
    /\ selectedCelestial = None
    /\ eq = [ra |-> 0, dec |-> 0]
    /\ eqDeps = <<azAlt, observer>>
    /\ subscriptions = ListenersOf(1)
    /\ effectRuns = 1
    /\ mounted = TRUE

NextAverage ==
    \/ FeedConstant

AverageSpec == InitAverage /\ [][NextAverage]_vars

----------------------------------------------------------------------------
\* The hysteresis test on azimuths all around the circle

\* azimuths in [0, 360) degrees
AzimuthGrid ==
    { 0, Tenth(1), Tenth(3), Tenth(4), Deg(90), Tenth(1799), Deg(180),
      Tenth(1801), Deg(270), Tenth(3597), Tenth(3599) }

\* A call shouldUpdateOrientation(newAz, newAlt)
CallShouldUpdate ==
    /\ result = None
    /\ result' = Some(shouldUpdateOrientation(arguments.newAz, arguments.newAlt,
                                              previousAzAlt))
    /\ UNCHANGED arguments
    /\ UNCHANGED lifecycleVars
    /\ UNCHANGED uiVars
    /\ UNCHANGED fusionVars
    /\ UNCHANGED locationVars
    /\ UNCHANGED searchVars

InitGate ==
    /\ last = [c \in Channels |-> "reading"]
    /\ madgwick = [heading |-> 0, pitch |-> 0, updates |-> 0]
    /\ sensorHistory = [azimuth |-> <<>>, altitude |-> <<>>]
    /\ previousAzAlt \in { [az |-> a, alt |-> 0] : a \in AzimuthGrid }
    /\ azAlt = previousAzAlt
    /\ declination = 0
    /\ closureDecl = 0
    /\ nArrivals = 0
    /\ locPermStatus = NULL
    /\ locPerm = FALSE
    /\ observer = None
    /\ locCalls = <<"awaitPermission">>
    /\ starData = <<>>
    /\ ephemFails = {}
    /\ searchQuery = Some(<<>>)
    /\ searchResults = <<>>
    /\ searchEffectPending = FALSE
    /\ returned = None
    /\ arguments \in { [newAz |-> a, newAlt |-> h] :
                          a \in AzimuthGrid, h \in {0, Tenth(3), Tenth(4)} }
    /\ result = None
    /\ showSearch = FALSE
    /\ selectedCelestial = None
    /\ eq = [ra |-> 0, dec |-> 0]
    /\ eqDeps = <<azAlt, observer>>
    /\ subscriptions = ListenersOf(1)
    /\ effectRuns = 1
    /\ mounted = TRUE

NextGate ==
    \/ CallShouldUpdate

GateSpec == InitGate /\ [][NextGate]_vars

----------------------------------------------------------------------------
\* The search modal and the selected target, with orientation updates going on

\* a catalog of three rows
UiCatalog ==
    CatalogOf(2, 1, CHOOSE row \in SpecialRows : row.id = 1005)

\* The application on its main screen: location fix obtained, accelerometer
\* and gyroscope delivering, the magnetometer not yet
InitUi ==
    /\ last = [c \in Channels |-> IF c = "mag" THEN NULL ELSE "reading"]
    /\ madgwick = [heading |-> 0, pitch |-> 0, updates |-> 0]
    /\ sensorHistory = [azimuth |-> <<>>, altitude |-> <<>>]
    /\ azAlt = [az |-> 0, alt |-> 0]
    /\ previousAzAlt = [az |-> 0, alt |-> 0]
    /\ declination = 0
    /\ closureDecl = 0
    /\ nArrivals = MaxArrivals - 3
    /\ observer = SomeObserver
    /\ locPermStatus = "granted"
    /\ locPerm = TRUE
    /\ locCalls = <<"done">>
    /\ starData = UiCatalog
    /\ ephemFails = {}
    /\ searchQuery = Some(<<>>)
    /\ searchResults = <<>>
    /\ searchEffectPending = FALSE
    /\ returned = None
    /\ arguments = None
    /\ result = None
    /\ showSearch = FALSE
    /\ selectedCelestial = None
    /\ eq = [ra |-> 0, dec |-> 0]
    /\ eqDeps = <<azAlt, observer>>
    /\ subscriptions = ListenersOf(1)
    /\ effectRuns = 1
    /\ mounted = TRUE

NextUi ==
    \/ toggleSearch
    \/ setSearchQuery
    \/ SearchEffect
    \/ selectCelestial
    \/ AccelListener
    \/ GyroListener
    \/ MagListener

UiSpec == InitUi /\ [][NextUi]_vars

----------------------------------------------------------------------------
\* Properties of the attitude fusion

\* a fusion step has just run
FusionStep == madgwick'.updates = madgwick.updates + 1
\* the filtered pair that fusion step computed
FilteredAz == Mean(sensorHistory'.azimuth)
FilteredAlt == Mean(sensorHistory'.altitude)
\* min(|a - b|, 360 - |a - b|)
CircularGap(a, b) == Min(Abs(a - b), Deg(360) - Abs(a - b))

\* C1: a sensor arrival runs the fusion step (filter update, one sample pushed
\* on each moving-average buffer) if and only if every channel has delivered a
\* reading by then; otherwise it changes nothing but last: the filter, both
\* buffers and the published orientation stay as they were.
C1_FusionGate ==
    [][ nArrivals' = nArrivals + 1 =>
          IF last'["accel"] # NULL /\ last'["gyro"] # NULL /\ last'["mag"] # NULL
          THEN /\ FusionStep
               /\ sensorHistory'.azimuth =
                      PushWindow(sensorHistory.azimuth,
                                 sensorHistory'.azimuth[Len(sensorHistory'.azimuth)],
                                 windowSize)
               /\ Len(sensorHistory'.altitude) = Len(sensorHistory'.azimuth)
               /\ Len(sensorHistory'.azimuth) =
                      Min(Len(sensorHistory.azimuth) + 1, windowSize)
          ELSE UNCHANGED <<madgwick, sensorHistory, azAlt, previousAzAlt>> ]_vars

\* C1 witness: three arrivals were no-ops (a channel was still missing, the
\* orientation still the initial one) and a later arrival fused.
C1_Witness ==
    /\ madgwick.updates = 1
    /\ nArrivals >= 4
    /\ Len(sensorHistory.azimuth) = 1

\* C2: whenever the published orientation changes, the new pair differs from
\* the previously published one by more than 0.3 degrees in circular azimuth or
\* in altitude; a fusion step whose filtered pair is within 0.3 degrees of the
\* published pair on both components changes neither azAlt nor previousAzAlt.
C2_PublishedBeyondThreshold ==
    [][ /\ azAlt' # azAlt =>
              \/ CircularGap(azAlt'.az, azAlt.az) > Tenth(3)
              \/ Abs(azAlt'.alt - azAlt.alt) > Tenth(3)
        /\ ( /\ FusionStep
             /\ CircularGap(FilteredAz, azAlt.az) <= Tenth(3)
             /\ Abs(FilteredAlt - azAlt.alt) <= Tenth(3) )
           => UNCHANGED <<azAlt, previousAzAlt>> ]_vars

\* C2 witness: an orientation other than the initial one was published, and a
\* later fusion step computed a different pair that was held back.
C2_Witness ==
    /\ azAlt # [az |-> 0, alt |-> 0]
    /\ Len(sensorHistory.azimuth) >= 2
    /\ <<Mean(sensorHistory.azimuth), Mean(sensorHistory.altitude)>>
          # <<azAlt.az, azAlt.alt>>

\* C3 as claimed: a fusion step whose filtered pair is within 0.3 degrees of the
\* PREVIOUS COMPUTATION's filtered pair publishes nothing, and one that differs
\* from the previous computation by more than 0.3 degrees publishes.
C3_ConsecutiveComputations ==
    [][ (FusionStep /\ Len(sensorHistory.azimuth) > 0) =>
          LET prevAz == Mean(sensorHistory.azimuth)
              prevAlt == Mean(sensorHistory.altitude)
              near == /\ CircularGap(FilteredAz, prevAz) < Tenth(3)
                      /\ Abs(FilteredAlt - prevAlt) < Tenth(3)
              far == \/ CircularGap(FilteredAz, prevAz) >= Tenth(4)
                     \/ Abs(FilteredAlt - prevAlt) >= Tenth(4)
          IN  /\ near => azAlt' = azAlt
              /\ far => azAlt' # azAlt ]_vars

\* C3 amended: the comparison is with the last PUBLISHED pair: a fusion step
\* whose filtered pair is within 0.3 degrees of previousAzAlt on both components
\* (circular gap for the azimuth) publishes nothing, and one that is more than
\* 0.3 degrees away on either component publishes exactly that filtered pair.
C3_AgainstLastPublished ==
    [][ FusionStep =>
          LET near == /\ CircularGap(FilteredAz, previousAzAlt.az) <= Tenth(3)
                      /\ Abs(FilteredAlt - previousAzAlt.alt) <= Tenth(3)
          IN  IF near
              THEN azAlt' = azAlt /\ previousAzAlt' = previousAzAlt
              ELSE /\ azAlt' = [az |-> FilteredAz, alt |-> FilteredAlt]
                   /\ azAlt' # azAlt
                   /\ previousAzAlt' = azAlt' ]_vars

\* C3 witness: two computations in a row 0.2 degrees apart of which the second
\* was published, because it is 0.4 degrees from the last published pair.
C3_Witness ==
    /\ Len(sensorHistory.altitude) = 2
    /\ sensorHistory.altitude = <<Tenth(2), Tenth(6)>>
    /\ azAlt.alt = Tenth(4)
    /\ previousAzAlt = azAlt

\* C4: every azimuth tryFuse computes, and so every azimuth it publishes, lies
\* in [0, 360) degrees.
C4_AzimuthInRange ==
    /\ \A i \in 1..Len(sensorHistory.azimuth) :
          0 <= sensorHistory.azimuth[i] /\ sensorHistory.azimuth[i] < Deg(360)
    /\ 0 <= azAlt.az /\ azAlt.az < Deg(360)

----------------------------------------------------------------------------
\* Properties of searchCelestial

\* the arguments make searchCelestial return at once
ShortInput ==
    \/ searchQuery = None
    \/ Len(ValueOf(searchQuery)) < 2
    \/ observer = None

\* str contains part, compared without regard to case
ContainsFolded(str, part) ==
    \E i \in 1..Len(str) :
        /\ i + Len(part) - 1 <= Len(str)
        /\ \A k \in 1..Len(part) : LowerChar(str[i + k - 1]) = LowerChar(part[k])

\* a record with nullable proper and name fields matches the query text
NameMatches(proper, name, text) ==
    \/ IsSome(proper) /\ ContainsFolded(ValueOf(proper), text)
    \/ IsSome(name) /\ ContainsFolded(ValueOf(name), text)

\* the magnitudes of all entries of the body table and of the catalog that
\* match the query text
MatchingMagnitudes(text) ==
    { solarSystemBodies[i].mag : i \in
        { k \in 1..Len(solarSystemBodies) :
            NameMatches(Some(solarSystemBodies[k].proper),
                        Some(solarSystemBodies[k].name), text) } }
    \cup
    { ValueOf(starData[i].mag) : i \in
        { k \in 1..Len(starData) :
            /\ IsSome(starData[k].mag)
            /\ NameMatches(starData[k].proper, starData[k].name, text) } }

SomethingMatches(text) ==
    \/ \E k \in 1..Len(solarSystemBodies) :
          NameMatches(Some(solarSystemBodies[k].proper),
                      Some(solarSystemBodies[k].name), text)
    \/ \E k \in 1..Len(starData) :
          NameMatches(starData[k].proper, starData[k].name, text)

\* C5: searchCelestial returns the empty sequence when the query is missing or
\* shorter than 2 characters or the observer is absent, and the search effect
\* then leaves the result list empty.
C5_ShortInputEmpty ==
    ShortInput =>
        /\ IsSome(returned) => ValueOf(returned) = <<>>
        /\ ~searchEffectPending => searchResults = <<>>

\* C5 witness: a one-character query against a catalog whose rows contain it,
\* with an observer and with results of the previous query on display; the
\* call returned nothing and the effect cleared the list.
C5_Witness ==
    /\ searchQuery = Some(<<"r">>)
    /\ observer # None
    /\ Len(starData) >= 3
    /\ returned = Some(<<>>)
    /\ ~searchEffectPending
    /\ searchResults = <<>>

\* C6 as claimed: when anything in the body table or the catalog matches the
\* query, the result is non-empty and its first element has the lowest
\* magnitude of all matching entries.
C6_FirstIsBrightestMatch ==
    ( /\ IsSome(returned)
      /\ ~ShortInput
      /\ SomethingMatches(ValueOf(searchQuery)) )
    => /\ ValueOf(returned) # <<>>
       /\ MatchingMagnitudes(ValueOf(searchQuery)) # {} =>
             /\ IsSome(ValueOf(returned)[1].mag)
             /\ \A m \in MatchingMagnitudes(ValueOf(searchQuery)) :
                   ValueOf(ValueOf(returned)[1].mag) <= m

\* the magnitude an entry is sorted by: 100 when it is missing or 0
SortKey(entry) ==
    IF entry.mag = None \/ entry.mag = Some(0) THEN 1000 ELSE ValueOf(entry.mag)

\* C6 amended: when searchCelestial has a candidate (a matching body whose
\* position computes, or one of the first 20 matching catalog rows that the
\* dedup lets through), the result is non-empty and its first element is a
\* candidate with the lowest sort magnitude of all candidates, the sort
\* magnitude being the magnitude, or 100 when that is missing or 0.
C6_FirstIsBrightestCandidate ==
    ( /\ IsSome(returned)
      /\ ~ShortInput
      /\ Candidates(searchQuery, observer, starData) # <<>> )
    => LET list == ValueOf(returned)
           cands == Candidates(searchQuery, observer, starData)
       IN  /\ list # <<>>
           /\ \E i \in 1..Len(cands) : cands[i] = list[1]
           /\ \A i \in 1..Len(cands) : SortKey(list[1]) <= SortKey(cands[i])

\* C6 witness: a body and catalog rows are candidates, and the first element
\* returned is a catalog row brighter than the body.
C6_Witness ==
    /\ IsSome(returned)
    /\ ~ShortInput
    /\ Len(ValueOf(returned)) >= 3
    /\ ~ValueOf(returned)[1].isSolarSystemBody
    /\ \E i \in 2..Len(ValueOf(returned)) : ValueOf(returned)[i].isSolarSystemBody

\* C7: the result is in ascending order of magnitude, an entry without a
\* magnitude, and only such an entry, counting as magnitude 100.
C7_AscendingMagnitude ==
    IsSome(returned) =>
        LET list == ValueOf(returned)
            Key(e) == IF IsSome(e.mag) THEN ValueOf(e.mag) ELSE 1000
        IN  \A i \in 1..Len(list) : \A j \in i..Len(list) :
                Key(list[i]) <= Key(list[j])

\* C8: no star-pass result has a proper or canonical name that equals, without
\* regard to case, the canonical or proper name of a solar-system body.
C8_NoBodyNamedStar ==
    IsSome(returned) =>
        \A i \in 1..Len(ValueOf(returned)) :
            LET e == ValueOf(returned)[i]
                Collides(field) ==
                    /\ IsSome(field)
                    /\ \E k \in 1..Len(solarSystemBodies) :
                          \/ toLowerCase(ValueOf(field))
                                = toLowerCase(solarSystemBodies[k].name)
                          \/ toLowerCase(ValueOf(field))
                                = toLowerCase(solarSystemBodies[k].proper)
            IN  ~e.isSolarSystemBody => ~Collides(e.proper) /\ ~Collides(e.name)

\* C9: every entry returned has the query, without regard to case, somewhere
\* in its proper or canonical name; and every body whose proper or canonical
\* name contains the query and whose position computes is returned unless the
\* list was cut at 15 entries.
C9_SubstringMatch ==
    (IsSome(returned) /\ ~ShortInput) =>
        LET list == ValueOf(returned)
            text == ValueOf(searchQuery)
        IN  /\ \A i \in 1..Len(list) :
                  NameMatches(list[i].proper, list[i].name, text)
            /\ \A k \in 1..Len(solarSystemBodies) :
                  ( /\ NameMatches(Some(solarSystemBodies[k].proper),
                                   Some(solarSystemBodies[k].name), text)
                    /\ toLowerCase(solarSystemBodies[k].name) \notin ephemFails )
                  => \/ \E i \in 1..Len(list) :
                            list[i].id = [key |-> solarSystemBodies[k].id]
                     \/ Len(list) = 15

\* C9 witness: the query "Ar" returned Mars (a match inside the name, in
\* another case) and a catalog row matched through its canonical name alone.
C9_Witness ==
    /\ searchQuery = Some(<<"A","r">>)
    /\ IsSome(returned)
    /\ \E i \in 1..Len(ValueOf(returned)) :
          ValueOf(returned)[i].id = [key |-> "mars"]
    /\ \E i \in 1..Len(ValueOf(returned)) :
          /\ ValueOf(returned)[i].proper = None
          /\ ValueOf(returned)[i].name = Some(<<"C","a","r">>)

\* C10: at most 15 entries are returned, and when there are more candidates
\* the 15 returned are the first 15 in sort order: every candidate left out
\* sorts at or after every entry returned.
C10_CappedAfterSort ==
    (IsSome(returned) /\ ~ShortInput) =>
        LET list == ValueOf(returned)
            cands == Candidates(searchQuery, observer, starData)
        IN  /\ Len(list) <= 15
            /\ Len(list) = Min(15, Len(cands))
            /\ \A i \in 1..Len(cands) :
                  (\A j \in 1..Len(list) : list[j] # cands[i])
                  => \A j \in 1..Len(list) : SortKey(list[j]) <= SortKey(cands[i])

\* C10 witness: more than 15 candidates, 15 returned, and one of the first 15
\* candidates in scan order is not among them.
C10_Witness ==
    /\ IsSome(returned)
    /\ ~ShortInput
    /\ Len(ValueOf(returned)) = 15
    /\ LET cands == Candidates(searchQuery, observer, starData)
       IN  /\ Len(cands) > 15
           /\ \E i \in 1..15 :
                 \A j \in 1..15 : ValueOf(returned)[j] # cands[i]

\* the place of a result entry in the scan: the bodies in table order, then the
\* catalog rows in catalog order
ScanRank(entry) ==
    IF entry.isSolarSystemBody
    THEN CHOOSE k \in 1..Len(solarSystemBodies) :
             entry.id = [key |-> solarSystemBodies[k].id]
    ELSE Len(solarSystemBodies)
         + (CHOOSE k \in 1..Len(starData) :
                /\ starData[k].ra = entry.ra
                /\ starData[k].dec = entry.dec
                /\ starData[k].proper = entry.proper
                /\ starData[k].name = entry.name)

\* C11: of two returned entries with the same sort magnitude the one scanned
\* first comes first: a solar-system body before a star, two bodies in table
\* order, two stars in catalog order.
C11_StableTies ==
    IsSome(returned) =>
        LET list == ValueOf(returned)
        IN  \A i \in 1..Len(list) : \A j \in (i + 1)..Len(list) :
                SortKey(list[i]) = SortKey(list[j])
                => ScanRank(list[i]) < ScanRank(list[j])

\* C11 witness: Mars is returned right before a star of its magnitude, and two
\* stars of one magnitude are returned next to each other.
C11_Witness ==
    /\ IsSome(returned)
    /\ LET list == ValueOf(returned)
       IN  /\ \E i \in 1..(Len(list) - 1) :
                 /\ list[i].id = [key |-> "mars"]
                 /\ ~list[i + 1].isSolarSystemBody
                 /\ list[i + 1].mag = list[i].mag
           /\ \E i \in 1..(Len(list) - 1) :
                 /\ ~list[i].isSolarSystemBody
                 /\ ~list[i + 1].isSolarSystemBody
                 /\ list[i + 1].mag = list[i].mag

----------------------------------------------------------------------------
\* Properties of StarData under failures

\* two strings are equal without regard to case
FoldedEqual(a, b) ==
    /\ Len(a) = Len(b)
    /\ \A i \in 1..Len(a) : LowerChar(a[i]) = LowerChar(b[i])

\* the name is, without regard to case, the canonical name of a body
Resolves(n) ==
    \E k \in 1..Len(solarSystemBodies) : FoldedEqual(n, solarSystemBodies[k].name)

\* the ephemeris computation throws for the body of that name
EphemerisThrows(n) == \E f \in ephemFails : FoldedEqual(n, f)

\* C12: calculateSolarSystemBodyPosition never ends with an exception; it
\* returns null when the observer is missing, when the name is missing, when
\* the name is not that of one of the ten bodies in any letter case, and when
\* the ephemeris computation throws; in every other case it returns a position.
C12_NullNeverThrown ==
    IsSome(result.position) =>
        LET value == ValueOf(result.position)
            n == arguments.bodyName
        IN  /\ value # Some(Thrown)
            /\ (observer = None \/ n = <<>> \/ ~Resolves(n)) => value = None
            /\ (observer # None /\ Resolves(n) /\ EphemerisThrows(n)) => value = None
            /\ (observer # None /\ Resolves(n) /\ ~EphemerisThrows(n))
                  => value # None /\ DOMAIN ValueOf(value) = {"ra", "dec"}

\* C12 witness: the position of "MARS" was asked for with an observer while
\* the ephemeris throws for Mars, and null came back.
C12_Witness ==
    /\ arguments.bodyName = <<"M","A","R","S">>
    /\ observer # None
    /\ <<"m","a","r","s">> \in ephemFails
    /\ result.position = Some(None)

\* the table indices of the bodies whose position computes
Computable ==
    { k \in 1..Len(solarSystemBodies) :
        observer # None /\ ~EphemerisThrows(solarSystemBodies[k].name) }

\* the table index of the body an entry was made from
TableIndex(id) == CHOOSE k \in 1..Len(solarSystemBodies) : solarSystemBodies[k].id = id

\* C13: getAllSolarSystemBodiesPositions returns exactly the bodies whose
\* position computes, in table order, whichever bodies fail; and so does the
\* solar-system pass of searchCelestial among the bodies that match the query:
\* no failed body is returned and every matching body that computes is
\* returned unless the list was cut at 15.
C13_FailuresDropped ==
    /\ IsSome(result.all) =>
          LET list == ValueOf(result.all)
          IN  /\ Len(list) = Cardinality(Computable)
              /\ \A k \in Computable :
                    \E i \in 1..Len(list) :
                        /\ list[i].id = solarSystemBodies[k].id
                        /\ list[i].isSolarSystemBody
                        /\ list[i].ra = Equator(toLowerCase(solarSystemBodies[k].name)).ra
              /\ \A i \in 1..Len(list) : \A j \in (i + 1)..Len(list) :
                    TableIndex(list[i].id) < TableIndex(list[j].id)
    /\ (IsSome(returned) /\ ~ShortInput) =>
          LET text == ValueOf(searchQuery)
              pass == SolarSystemResults(toLowerCase(text), observer)
              list == ValueOf(returned)
              wanted == { k \in Computable :
                            NameMatches(Some(solarSystemBodies[k].proper),
                                        Some(solarSystemBodies[k].name), text) }
          IN  /\ Len(pass) = Cardinality(wanted)
              /\ \A k \in wanted :
                    \E i \in 1..Len(pass) : pass[i].id = [key |-> solarSystemBodies[k].id]
              /\ \A i \in 1..Len(pass) : \A j \in (i + 1)..Len(pass) :
                    TableIndex(pass[i].id.key) < TableIndex(pass[j].id.key)
              /\ \A i \in 1..Len(list) :
                    list[i].isSolarSystemBody => TableIndex(list[i].id.key) \in wanted
              /\ \A k \in wanted :
                    \/ \E i \in 1..Len(list) : list[i].id = [key |-> solarSystemBodies[k].id]
                    \/ Len(list) = 15

\* C13 witness: the ephemeris throws for the Sun and for Mars; the batch
\* returned the other eight bodies, the Moon first, and the search for "un"
\* returned Neptune without the Sun.
C13_Witness ==
    /\ observer # None
    /\ ephemFails = { <<"s","u","n">>, <<"m","a","r","s">> }
    /\ IsSome(result.all)
    /\ Len(ValueOf(result.all)) = 8
    /\ ValueOf(result.all)[1].id = "moon"
    /\ searchQuery = Some(<<"u","n">>)
    /\ IsSome(returned)
    /\ \E i \in 1..Len(ValueOf(returned)) : ValueOf(returned)[i].id = [key |-> "neptune"]
    /\ \A i \in 1..Len(ValueOf(returned)) : ValueOf(returned)[i].id # [key |-> "sun"]

\* the catalog has an entry on which the star pass throws
CatalogUnusable == \E i \in 1..Len(starData) : starData[i] = NullRow

\* the catalog rows searchCelestial's star pass keeps for the text
KeptRows(text) ==
    { k \in 1..Len(starData) :
        /\ NameMatches(starData[k].proper, starData[k].name, text)
        /\ ~(IsSome(starData[k].name) /\ Resolves(ValueOf(starData[k].name)))
        /\ ~(/\ IsSome(starData[k].proper)
              /\ \E b \in 1..Len(solarSystemBodies) :
                    FoldedEqual(ValueOf(starData[k].proper), solarSystemBodies[b].proper)) }

\* C14: when the star pass throws because the catalog is unusable,
\* searchCelestial still returns: exactly the matching bodies whose position
\* computes, in ascending magnitude; and when the solar-system pass yields
\* nothing because the computation fails for every matching body, the star
\* pass results are still returned.
C14_PassesIndependent ==
    (IsSome(returned) /\ ~ShortInput) =>
        LET list == ValueOf(returned)
            text == ValueOf(searchQuery)
            matching == { k \in 1..Len(solarSystemBodies) :
                            NameMatches(Some(solarSystemBodies[k].proper),
                                        Some(solarSystemBodies[k].name), text) }
        IN  /\ CatalogUnusable =>
                  /\ Len(list) = Cardinality(matching \cap Computable)
                  /\ \A k \in matching \cap Computable :
                        \E i \in 1..Len(list) :
                            list[i].id = [key |-> solarSystemBodies[k].id]
                  /\ \A i \in 1..Len(list) : \A j \in (i + 1)..Len(list) :
                        ValueOf(list[i].mag) <= ValueOf(list[j].mag)
            /\ (~CatalogUnusable /\ matching # {} /\ matching \cap Computable = {}) =>
                  /\ \A i \in 1..Len(list) : ~list[i].isSolarSystemBody
                  /\ Len(list) = Min(15, Min(20, Cardinality(KeptRows(text))))

\* C14 witness: the catalog holds rows with "ar" and a null entry; the search
\* for "ar" returned Mars alone.
C14_Witness ==
    /\ CatalogUnusable
    /\ Len(starData) >= 4
    /\ searchQuery = Some(<<"a","r">>)
    /\ observer # None
    /\ IsSome(returned)
    /\ Len(ValueOf(returned)) = 1
    /\ ValueOf(returned)[1].id = [key |-> "mars"]

----------------------------------------------------------------------------
\* Properties of the target bearing

\* target and pointing right ascension are both in [0, 24) hours
RaInRange ==
    /\ IsSome(selectedCelestial)
    /\ 0 <= ValueOf(selectedCelestial).ra /\ ValueOf(selectedCelestial).ra < 240
    /\ 0 <= eq.ra /\ eq.ra < 240

\* C15 as claimed: the RA offset lies in the half-open interval (-180, 180]
\* degrees.
C15_HalfOpenInterval ==
    RaInRange =>
        /\ -1800 < ValueOf(directionInfo).raDiff
        /\ ValueOf(directionInfo).raDiff <= 1800

\* C15 amended: the RA offset lies in the closed interval [-180, 180] degrees
\* and differs from (target RA - current RA) x 15 by 0, +360 or -360 degrees;
\* -180 is reached when the target is exactly 12 hours behind.
C15_ClosedInterval ==
    RaInRange =>
        LET raDiff == ValueOf(directionInfo).raDiff
            plain == (ValueOf(selectedCelestial).ra - eq.ra) * 15
        IN  /\ -1800 <= raDiff
            /\ raDiff <= 1800
            /\ raDiff \in {plain, plain - 3600, plain + 3600}

\* C15 witness: the frame effect has set a pointing direction 12 hours ahead
\* of the target, and the offset is -180 degrees.
C15_Witness ==
    /\ RaInRange
    /\ eqDeps = <<azAlt, observer>>
    /\ subscriptions = ListenersOf(1)
    /\ effectRuns = 1
    /\ mounted = TRUE
    /\ eq.ra - ValueOf(selectedCelestial).ra = 120
    /\ ValueOf(directionInfo).raDiff = -1800

\* C16: when the target's RA and Dec equal the pointing RA and Dec, the RA
\* offset, the Dec offset and the distance are 0, the compass is hidden and
\* the target counts as inside the 3 degree circle.
C16_AlignedAtTarget ==
    ( /\ IsSome(selectedCelestial)
      /\ ValueOf(selectedCelestial).ra = eq.ra
      /\ ValueOf(selectedCelestial).dec = eq.dec )
    => /\ directionInfo = Some([raDiff |-> 0, decDiff |-> 0, distanceSq |-> 0])
       /\ ~showCompass
       /\ targetInCircle

\* C16 witness: the frame effect has set the pointing direction to that of a
\* target away from the initial direction.
C16_Witness ==
    /\ IsSome(selectedCelestial)
    /\ eqDeps = <<azAlt, observer>>
    /\ subscriptions = ListenersOf(1)
    /\ effectRuns = 1
    /\ mounted = TRUE
    /\ eq = [ra |-> 120, dec |-> 37]
    /\ ValueOf(selectedCelestial).ra = eq.ra
    /\ ValueOf(selectedCelestial).dec = eq.dec
    /\ ~showCompass

----------------------------------------------------------------------------
\* Properties of the moving average

\* the integer n is a floating-point number
Representable(n) ==
    \E x \in Exponents : n % (2 ^ x) = 0 /\ n \div (2 ^ x) < 2 ^ SignificandBits

\* C17 as claimed: once the same value V has been fed 5 or more times in a
\* row, the value returned equals V exactly.
C17_ExactlyV ==
    result.fed >= 5 => result.filtered = Some(arguments)

\* C17 amended: once the same value V has been fed 5 or more times in a row,
\* whatever the buffer held before, the value returned is within one unit in
\* the last place of V, and it is V exactly when 3V and 5V are representable,
\* so that no addition of the sum rounds.
C17_WithinOneUlp ==
    result.fed >= 5 =>
        LET out == FloatValue(ValueOf(result.filtered))
            v == FloatValue(arguments)
            ulp == 2 ^ arguments.e
        IN  /\ out - v <= ulp
            /\ v - out <= ulp
            /\ (Representable(3 * v) /\ Representable(5 * v)) => out = v

\* C17 witness: the buffer held five other samples, V was fed five times, and
\* the value returned is not V.
C17_Witness ==
    /\ result.fed = 5
    /\ sensorHistory.azimuth = [i \in 1..5 |-> arguments]
    /\ result.filtered # Some(arguments)
    /\ ~Representable(3 * FloatValue(arguments))

----------------------------------------------------------------------------
\* Properties of the hysteresis test

\* C18: for azimuths a, b in [0, 360) the circular difference
\* min(|a-b|, 360-|a-b|) that shouldUpdateOrientation uses is the same in both
\* directions and lies between 0 and 180 degrees; the test answers true
\* exactly when it, or the altitude difference, exceeds 0.3 degrees.
C18_CircularDifference ==
    IsSome(result) =>
        LET a == arguments.newAz
            b == previousAzAlt.az
            d == normalizedAzDiff(a, b)
        IN  /\ d = normalizedAzDiff(b, a)
            /\ 0 <= d
            /\ d <= Deg(180)
            /\ d \in {a - b, b - a, Deg(360) - (a - b), Deg(360) - (b - a)}
            /\ ValueOf(result) <=>
                  (d > Tenth(3) \/ Abs(arguments.newAlt - previousAzAlt.alt) > Tenth(3))

\* C18 witness: 359.7 degrees was compared with a published 0 degrees at the
\* same altitude: the difference is 0.3 degrees across north, and nothing is
\* to be published.
C18_Witness ==
    /\ arguments = [newAz |-> Tenth(3597), newAlt |-> 0]
    /\ previousAzAlt.az = 0
    /\ normalizedAzDiff(arguments.newAz, previousAzAlt.az) = Tenth(3)
    /\ result = Some(FALSE)

----------------------------------------------------------------------------
\* Properties of the selected target and of the location start-up

\* C19: selectedCelestial holds at most one object; once it holds one it holds
\* one after every step, and it changes only by the selection of a row of the
\* result list of the open modal, which becomes the target and closes the
\* modal.
C19_TargetPersists ==
    [][ /\ Len(selectedCelestial') <= 1
        /\ selectedCelestial # None => selectedCelestial' # None
        /\ selectedCelestial' # selectedCelestial =>
              /\ showSearch
              /\ ~showSearch'
              /\ \E i \in 1..Len(searchResults) :
                    selectedCelestial' = Some(searchResults[i]) ]_vars

\* C19 witness: a target selected earlier is still the target after the modal
\* was closed and opened again, another query typed and searched, and an
\* orientation published.
C19_Witness ==
    /\ IsSome(selectedCelestial)
    /\ showSearch
    /\ searchQuery = Some(<<"u","n">>)
    /\ Len(searchResults) >= 2
    /\ \A i \in 1..Len(searchResults) : searchResults[i] # ValueOf(selectedCelestial)
    /\ azAlt # [az |-> 0, alt |-> 0]

\* C20: when the permission is granted and no location fix was obtained, every
\* call of requestLocationPermission having ended, the screen shown is the one
\* with the request button that re-runs the acquisition.
C20_RetryAfterFixFailure ==
    ( /\ locPermStatus = "granted"
      /\ ~IsSome(observer)
      /\ \A i \in 1..Len(locCalls) : locCalls[i] = "done" )
    => Screen = "permission"

----------------------------------------------------------------------------
\* Properties of the sensor subscriptions

ListenersOn(c) == { s \in subscriptions : s.channel = c }

\* C21: every sensor channel has at most one registered listener at any time;
\* whenever the set of listeners changes, the listeners removed are exactly the
\* three that the last run of the subscription effect registered; after the
\* unmount no listener is registered and no step changes the fusion state.
C21_ListenersReleased ==
    /\ [](\A c \in Channels : Cardinality(ListenersOn(c)) <= 1)
    /\ [](~mounted => subscriptions = {})
    /\ [][ (subscriptions' # subscriptions \/ mounted' # mounted) =>
              /\ subscriptions \ subscriptions' = ListenersOf(effectRuns)
              /\ Cardinality(subscriptions \ subscriptions') = 3 ]_vars
    /\ [][ ~mounted => UNCHANGED fusionVars ]_vars

\* C21 witness: the component was unmounted after the subscription effect had
\* run again for a changed declination and after a fusion step, with sensor
\* readings still to come.
C21_Witness ==
    /\ ~mounted
    /\ subscriptions = {}
    /\ effectRuns >= 2
    /\ madgwick.updates >= 1
    /\ nArrivals < MaxArrivals

----------------------------------------------------------------------------
\* Properties of the declination

\* C22: the declination, and the declination the registered tryFuse uses, are
\* 0 until assigned and never change once they are not 0: the declination is
\* assigned at most once, whatever permission requests and retries occur.
C22_DeclinationAssignedOnce ==
    [][ /\ declination # 0 => declination' = declination
        /\ closureDecl # 0 => closureDecl' = closureDecl ]_vars

----------------------------------------------------------------------------
\* Properties of the smoothed azimuth

\* headings and distances (below 90 degrees) the samples are compared with
NearHeadings == { 0, Tenth(2), Tenth(3598), Deg(8), Deg(180) }
NearDistances == { Tenth(2), Tenth(4), Deg(1), Deg(89) }

\* C23: when every azimuth sample in the moving-average window lies within
\* circular distance d, d below 90 degrees, of a heading h, the smoothed azimuth
\* (the mean of the window) lies within circular distance d of h too, also when
\* h is near north and the samples lie on both sides of the 0/360 boundary.
C23_SmoothedStaysNear ==
    sensorHistory.azimuth # <<>> =>
        \A h \in NearHeadings, d \in NearDistances :
            (\A i \in 1..Len(sensorHistory.azimuth) :
                 CircularGap(sensorHistory.azimuth[i], h) <= d)
            => CircularGap(Mean(sensorHistory.azimuth), h) <= d

----------------------------------------------------------------------------
\* Properties of the last-published record

\* C24: in every state between sensor callbacks the record previousAzAlt that
\* the hysteresis test compares with equals the orientation last handed to
\* setAzAlt; both start at az = 0, alt = 0.
C24_RecordIsPublished ==
    /\ previousAzAlt.az = azAlt.az
    /\ previousAzAlt.alt = azAlt.alt

\* C24 witness: an orientation other than the initial one is published and
\* recorded, and the latest of at least three fusion steps computed a filtered
\* azimuth that was not published.
C24_Witness ==
    /\ azAlt # [az |-> 0, alt |-> 0]
    /\ previousAzAlt = azAlt
    /\ madgwick.updates >= 3
    /\ Mean(sensorHistory.azimuth) # azAlt.az

----------------------------------------------------------------------------
\* Properties of the search modal

\* C25: the modal is closed or open; toggleSearch always flips it; a step that
\* closes it leaves the query and the result list empty and a step that opens
\* it leaves both as they were; selecting a result happens only while it is
\* open, sets the selected target and closes it; and whenever the modal is
\* closed the query and the result list are empty.
C25_ModalMachine ==
    /\ [](showSearch \in BOOLEAN)
    /\ [](~showSearch => searchQuery = Some(<<>>) /\ searchResults = <<>>)
    /\ [][ toggleSearch => showSearch' = ~showSearch ]_vars
    /\ [][ (showSearch /\ ~showSearch') =>
              searchQuery' = Some(<<>>) /\ searchResults' = <<>> ]_vars
    /\ [][ (~showSearch /\ showSearch') =>
              searchQuery' = searchQuery /\ searchResults' = searchResults ]_vars
    /\ [][ selectCelestial =>
              /\ showSearch
              /\ ~showSearch'
              /\ IsSome(selectedCelestial')
              /\ \E i \in 1..Len(searchResults) :
                    selectedCelestial' = Some(searchResults[i]) ]_vars

\* C25 witness: the modal is closed again after a query was typed and searched
\* and a result selected, the search effect has run since, and the query and the
\* result list are empty.
C25_Witness ==
    /\ ~showSearch
    /\ IsSome(selectedCelestial)
    /\ ~searchEffectPending
    /\ searchQuery = Some(<<>>)
    /\ searchResults = <<>>

====
